---- MODULE Spec2Model ----
(***************************************************************************)
(* Model of the express-autotemplates project generator:                   *)
(*   validateProjectName / generateProject   (generator module)            *)
(*   the five template generate() routines   (basic, chatapp, ecom, blog,  *)
(*                                            aichat)                      *)
(* The filesystem is a function from absolute paths to an entry tag.  A    *)
(* path is a sequence of segments; a segment is a sequence of tokens: the  *)
(* segments that come from a project name are the name's characters, the   *)
(* literal segments written by the templates are one token each.           *)
(***************************************************************************)
EXTENDS Integers, Sequences, FiniteSets, TLC

\* ------------------------------------------------------------------ bounds
MaxLen == 2          \* longest enumerated name given to the validator
MaxCalls == 2        \* calls of generateProject issued by one caller
NumProcs == 2        \* callers that exist (Spec runs caller 1 alone)

Procs == 1..NumProcs
SeqProcs == {1}

\* -------------------------------------------------------------- characters
LowerSeq == << "a","b","c","d","e","f","g","h","i","j","k","l","m",
               "n","o","p","q","r","s","t","u","v","w","x","y","z" >>
UpperSeq == << "A","B","C","D","E","F","G","H","I","J","K","L","M",
               "N","O","P","Q","R","S","T","U","V","W","X","Y","Z" >>
Digits == {"0","1","2","3","4","5","6","7","8","9"}
Range(s) == {s[i] : i \in DOMAIN s}
Lower == Range(LowerSeq)
Upper == Range(UpperSeq)
\* String.prototype.trim() strips these (the ones the model uses)
Whitespace == {" ", "\t", "\n"}

\* String.prototype.toLowerCase(), one character
toLowerChar(c) ==
  IF c \in Upper THEN LowerSeq[CHOOSE i \in DOMAIN UpperSeq : UpperSeq[i] = c]
  ELSE c
toLowerCase(s) == [i \in DOMAIN s |-> toLowerChar(s[i])]

\* -------------------------------------------------------------- JS values
\* a project name as the caller passes it: a string, or undefined
Str(s) == [type |-> "string", chars |-> s]
Undefined == [type |-> "undefined", chars |-> << >>]

\* --------------------------------------------------- validateProjectName
MaxNameLength == 214

\* /^[a-z0-9-_]+$/i : the class is a-z, 0-9, '-' and '_', case-insensitive
InNameClass(c) == c \in Lower \cup Upper \cup Digits \cup {"-", "_"}
validNameRegexTest(s) == Len(s) >= 1 /\ \A i \in DOMAIN s : InNameClass(s[i])

\* projectName.trim().length === 0
TrimIsEmpty(s) == \A i \in DOMAIN s : s[i] \in Whitespace

startsWith(s, c) == Len(s) >= 1 /\ s[1] = c

reservedNames ==
  { <<"n","o","d","e","_","m","o","d","u","l","e","s">>,
    <<"f","a","v","i","c","o","n",".","i","c","o">>,
    <<"p","a","c","k","a","g","e",".","j","s","o","n">>,
    <<"p","a","c","k","a","g","e","-","l","o","c","k",".","j","s","o","n">> }

\* variant: the leading '.'/'-' check is missing
validateProjectNameNoLeadingCheck(projectName) ==
  IF projectName.type # "string" \/ Len(projectName.chars) = 0
        \/ TrimIsEmpty(projectName.chars)
    THEN "EmptyName"
  ELSE IF Len(projectName.chars) > MaxNameLength
    THEN "NameTooLong"
  ELSE IF ~validNameRegexTest(projectName.chars)
    THEN "InvalidCharacters"
  ELSE IF toLowerCase(projectName.chars) \in reservedNames
    THEN "ReservedName"
  ELSE "none"

\* variant: the length check uses >= instead of >
validateProjectNameOffByOne(projectName) ==
  IF projectName.type # "string" \/ Len(projectName.chars) = 0
        \/ TrimIsEmpty(projectName.chars)
    THEN "EmptyName"
  ELSE IF Len(projectName.chars) >= MaxNameLength
    THEN "NameTooLong"
  ELSE IF ~validNameRegexTest(projectName.chars)
    THEN "InvalidCharacters"
  ELSE IF startsWith(projectName.chars, ".") \/ startsWith(projectName.chars, "-")
    THEN "LeadingDotOrHyphen"
  ELSE IF toLowerCase(projectName.chars) \in reservedNames
    THEN "ReservedName"
  ELSE "none"

\* variant: the reserved-name check comes before the character-set check
validateProjectNameReservedFirst(projectName) ==
  IF projectName.type # "string" \/ Len(projectName.chars) = 0
        \/ TrimIsEmpty(projectName.chars)
    THEN "EmptyName"
  ELSE IF Len(projectName.chars) > MaxNameLength
    THEN "NameTooLong"
  ELSE IF toLowerCase(projectName.chars) \in reservedNames
    THEN "ReservedName"
  ELSE IF ~validNameRegexTest(projectName.chars)
    THEN "InvalidCharacters"
  ELSE IF startsWith(projectName.chars, ".") \/ startsWith(projectName.chars, "-")
    THEN "LeadingDotOrHyphen"
  ELSE "none"

\* the error validateProjectName throws, "none" when it returns normally
validateProjectName(projectName) ==
  IF projectName.type # "string" \/ Len(projectName.chars) = 0
        \/ TrimIsEmpty(projectName.chars)
    THEN "EmptyName"
  ELSE IF Len(projectName.chars) > MaxNameLength
    THEN "NameTooLong"
  ELSE IF ~validNameRegexTest(projectName.chars)
    THEN "InvalidCharacters"
  ELSE IF startsWith(projectName.chars, ".") \/ startsWith(projectName.chars, "-")
    THEN "LeadingDotOrHyphen"
  ELSE IF toLowerCase(projectName.chars) \in reservedNames
    THEN "ReservedName"
  ELSE "none"

\* ------------------------------------------------------------- path.join
cwd == << <<"home">>, <<"work">> >>

RECURSIVE SplitFrom(_, _, _)
\* split s on "/" from position i on, cur being the segment under construction
SplitFrom(s, i, cur) ==
  IF i > Len(s) THEN << cur >>
  ELSE IF s[i] = "/" THEN << cur >> \o SplitFrom(s, i + 1, << >>)
  ELSE SplitFrom(s, i + 1, Append(cur, s[i]))

RECURSIVE NormalizeOnto(_, _)
\* path.normalize: drop empty and "." segments, ".." removes the last one
NormalizeOnto(base, segs) ==
  IF segs = << >> THEN base
  ELSE LET h == Head(segs) t == Tail(segs) IN
       IF h = << >> \/ h = << "." >> THEN NormalizeOnto(base, t)
       ELSE IF h = << ".", "." >>
         THEN NormalizeOnto(IF base = << >> THEN base
                            ELSE SubSeq(base, 1, Len(base) - 1), t)
       ELSE NormalizeOnto(Append(base, h), t)

\* path.join(process.cwd(), projectName) for a string projectName
pathJoin(base, s) == NormalizeOnto(base, SplitFrom(s, 1, << >>))
\* path.join throws a TypeError when an argument is not a string
pathJoinThrows(projectName) == projectName.type # "string"

\* ------------------------------------------------------------ filesystem
IsPrefix(a, b) == Len(a) <= Len(b) /\ SubSeq(b, 1, Len(a)) = a
Parent(p) == SubSeq(p, 1, Len(p) - 1)
Prefixes(p) == {SubSeq(p, 1, k) : k \in 1..Len(p)}

\* fs.pathExists: true iff the entry exists; it never throws
pathExists(f, p) == p = << >> \/ p \in DOMAIN f
IsDir(f, p) == p = << >> \/ (p \in DOMAIN f /\ f[p] = "dir")

\* fs.ensureDir (mkdir -p): possible unless a prefix is a file
ensureDirCan(f, p) == \A q \in Prefixes(p) : q \in DOMAIN f => f[q] = "dir"
ensureDir(f, p) ==
  [q \in DOMAIN f \cup Prefixes(p) |-> IF q \in DOMAIN f THEN f[q] ELSE "dir"]

\* fs.writeFile / fs.writeJson: the parent must be a directory, the target not
writeFileCan(f, p) == Len(p) >= 1 /\ IsDir(f, Parent(p)) /\ ~IsDir(f, p)
writeFile(f, p, content) ==
  [q \in DOMAIN f \cup {p} |-> IF q = p THEN content ELSE f[q]]

\* variant: only the entry itself is removed, not what is below it
removeShallow(f, p) == [q \in {r \in DOMAIN f : r # p} |-> f[q]]

\* fs.remove (rm -rf): the entry and everything below it
remove(f, p) == [q \in {r \in DOMAIN f : ~IsPrefix(p, r)} |-> f[q]]

\* --------------------------------------------------------------- templates
\* variant: basic's generate without the package.json write
basicOpsNoManifest ==
  <<[op |-> "ensureDir", rel |-> <<<<"config">>>>],
     [op |-> "ensureDir", rel |-> <<<<"public">>>>],
     [op |-> "writeFile", rel |-> <<<<"index.js">>>>],
     [op |-> "writeFile", rel |-> <<<<"config">>, <<"db.js">>>>] >>

basicOps ==  \* src/unnamed/part_000:349-830
  <<[op |-> "ensureDir", rel |-> <<<<"config">>>>],
     [op |-> "ensureDir", rel |-> <<<<"controllers">>>>],
     [op |-> "ensureDir", rel |-> <<<<"models">>>>],
     [op |-> "ensureDir", rel |-> <<<<"routes">>>>],
     [op |-> "ensureDir", rel |-> <<<<"middlewares">>>>],
     [op |-> "ensureDir", rel |-> <<<<"utils">>>>],
     [op |-> "ensureDir", rel |-> <<<<"public">>>>],
     [op |-> "writeFile", rel |-> <<<<"package.json">>>>],
     [op |-> "writeFile", rel |-> <<<<"index.js">>>>],
     [op |-> "writeFile", rel |-> <<<<"config">>, <<"db.js">>>>],
     [op |-> "writeFile", rel |-> <<<<"controllers">>, <<"healthController.js">>>>],
     [op |-> "writeFile", rel |-> <<<<"routes">>, <<"health.js">>>>],
     [op |-> "writeFile", rel |-> <<<<"middlewares">>, <<"auth.js">>>>],
     [op |-> "writeFile", rel |-> <<<<"utils">>, <<"logger.js">>>>],
     [op |-> "writeFile", rel |-> <<<<"utils">>, <<"response.js">>>>],
     [op |-> "writeFile", rel |-> <<<<"models">>, <<"README.md">>>>],
     [op |-> "writeFile", rel |-> <<<<"public">>, <<"index.html">>>>],
     [op |-> "writeFile", rel |-> <<<<".env">>>>],
     [op |-> "writeFile", rel |-> <<<<"README.md">>>>],
     [op |-> "writeFile", rel |-> <<<<".gitignore">>>>] >>
chatappOps ==  \* src/src/templates/ecom.js:1752-2236
  <<[op |-> "ensureDir", rel |-> <<<<"models">>>>],
     [op |-> "ensureDir", rel |-> <<<<"routes">>>>],
     [op |-> "ensureDir", rel |-> <<<<"middleware">>>>],
     [op |-> "ensureDir", rel |-> <<<<"controllers">>>>],
     [op |-> "ensureDir", rel |-> <<<<"config">>>>],
     [op |-> "ensureDir", rel |-> <<<<"utils">>>>],
     [op |-> "writeFile", rel |-> <<<<"package.json">>>>],
     [op |-> "writeFile", rel |-> <<<<"server.js">>>>],
     [op |-> "writeFile", rel |-> <<<<"config">>, <<"database.js">>>>],
     [op |-> "writeFile", rel |-> <<<<"models">>, <<"User.js">>>>],
     [op |-> "writeFile", rel |-> <<<<"models">>, <<"Room.js">>>>],
     [op |-> "writeFile", rel |-> <<<<"models">>, <<"Message.js">>>>],
     [op |-> "writeFile", rel |-> <<<<"middleware">>, <<"auth.js">>>>],
     [op |-> "writeFile", rel |-> <<<<"controllers">>, <<"authController.js">>>>],
     [op |-> "writeFile", rel |-> <<<<"controllers">>, <<"roomController.js">>>>],
     [op |-> "writeFile", rel |-> <<<<"controllers">>, <<"messageController.js">>>>],
     [op |-> "writeFile", rel |-> <<<<"routes">>, <<"auth.js">>>>],
     [op |-> "writeFile", rel |-> <<<<"routes">>, <<"rooms.js">>>>],
     [op |-> "writeFile", rel |-> <<<<"routes">>, <<"messages.js">>>>],
     [op |-> "writeFile", rel |-> <<<<"utils">>, <<"socketHandler.js">>>>],
     [op |-> "writeFile", rel |-> <<<<".env">>>>],
     [op |-> "writeFile", rel |-> <<<<"README.md">>>>],
     [op |-> "writeFile", rel |-> <<<<".gitignore">>>>] >>
ecomOps ==  \* src/src/templates/ecom.js:441-1170
  <<[op |-> "writeFile", rel |-> <<<<"package.json">>>>],
     [op |-> "writeFile", rel |-> <<<<"server.js">>>>],
     [op |-> "writeFile", rel |-> <<<<".env">>>>],
     [op |-> "writeFile", rel |-> <<<<"README.md">>>>],
     [op |-> "writeFile", rel |-> <<<<".gitignore">>>>],
     [op |-> "ensureDir", rel |-> <<<<"models">>>>],
     [op |-> "ensureDir", rel |-> <<<<"routes">>>>],
     [op |-> "ensureDir", rel |-> <<<<"middleware">>>>],
     [op |-> "ensureDir", rel |-> <<<<"uploads">>>>],
     [op |-> "writeFile", rel |-> <<<<"models">>, <<"User.js">>>>],
     [op |-> "writeFile", rel |-> <<<<"models">>, <<"Product.js">>>>],
     [op |-> "writeFile", rel |-> <<<<"models">>, <<"Cart.js">>>>],
     [op |-> "writeFile", rel |-> <<<<"models">>, <<"Order.js">>>>],
     [op |-> "writeFile", rel |-> <<<<"routes">>, <<"auth.js">>>>],
     [op |-> "writeFile", rel |-> <<<<"middleware">>, <<"auth.js">>>>],
     [op |-> "writeFile", rel |-> <<<<"routes">>, <<"products.js">>>>],
     [op |-> "writeFile", rel |-> <<<<"routes">>, <<"cart.js">>>>],
     [op |-> "writeFile", rel |-> <<<<"routes">>, <<"orders.js">>>>],
     [op |-> "writeFile", rel |-> <<<<"routes">>, <<"payments.js">>>>] >>
\* variant: blog's generate writing a model file before creating models/
blogOpsWriteFirst ==
  <<[op |-> "writeFile", rel |-> <<<<"package.json">>>>],
     [op |-> "writeFile", rel |-> <<<<"models">>, <<"User.js">>>>],
     [op |-> "ensureDir", rel |-> <<<<"models">>>>],
     [op |-> "writeFile", rel |-> <<<<"server.js">>>>] >>

blogOps ==  \* src/unnamed/part_001:420-1071
  <<[op |-> "writeFile", rel |-> <<<<"package.json">>>>],
     [op |-> "writeFile", rel |-> <<<<"server.js">>>>],
     [op |-> "writeFile", rel |-> <<<<".env">>>>],
     [op |-> "writeFile", rel |-> <<<<"README.md">>>>],
     [op |-> "writeFile", rel |-> <<<<".gitignore">>>>],
     [op |-> "ensureDir", rel |-> <<<<"models">>>>],
     [op |-> "ensureDir", rel |-> <<<<"routes">>>>],
     [op |-> "ensureDir", rel |-> <<<<"middleware">>>>],
     [op |-> "writeFile", rel |-> <<<<"models">>, <<"User.js">>>>],
     [op |-> "writeFile", rel |-> <<<<"models">>, <<"Post.js">>>>],
     [op |-> "writeFile", rel |-> <<<<"models">>, <<"Comment.js">>>>],
     [op |-> "writeFile", rel |-> <<<<"middleware">>, <<"auth.js">>>>],
     [op |-> "writeFile", rel |-> <<<<"routes">>, <<"auth.js">>>>],
     [op |-> "writeFile", rel |-> <<<<"routes">>, <<"posts.js">>>>],
     [op |-> "writeFile", rel |-> <<<<"routes">>, <<"comments.js">>>>],
     [op |-> "ensureDir", rel |-> <<<<"uploads">>>>] >>
aichatOps ==  \* src/unnamed/part_001:1917-2636
  <<[op |-> "ensureDir", rel |-> <<<<"models">>>>],
     [op |-> "ensureDir", rel |-> <<<<"routes">>>>],
     [op |-> "ensureDir", rel |-> <<<<"middleware">>>>],
     [op |-> "ensureDir", rel |-> <<<<"controllers">>>>],
     [op |-> "ensureDir", rel |-> <<<<"config">>>>],
     [op |-> "ensureDir", rel |-> <<<<"utils">>>>],
     [op |-> "ensureDir", rel |-> <<<<"services">>>>],
     [op |-> "writeFile", rel |-> <<<<"package.json">>>>],
     [op |-> "writeFile", rel |-> <<<<"server.js">>>>],
     [op |-> "writeFile", rel |-> <<<<"config">>, <<"database.js">>>>],
     [op |-> "writeFile", rel |-> <<<<"models">>, <<"User.js">>>>],
     [op |-> "writeFile", rel |-> <<<<"models">>, <<"Chat.js">>>>],
     [op |-> "writeFile", rel |-> <<<<"services">>, <<"openaiService.js">>>>],
     [op |-> "writeFile", rel |-> <<<<"middleware">>, <<"auth.js">>>>],
     [op |-> "writeFile", rel |-> <<<<"controllers">>, <<"authController.js">>>>],
     [op |-> "writeFile", rel |-> <<<<"controllers">>, <<"chatController.js">>>>],
     [op |-> "writeFile", rel |-> <<<<"controllers">>, <<"usageController.js">>>>],
     [op |-> "writeFile", rel |-> <<<<"routes">>, <<"auth.js">>>>],
     [op |-> "writeFile", rel |-> <<<<"routes">>, <<"chat.js">>>>],
     [op |-> "writeFile", rel |-> <<<<"routes">>, <<"usage.js">>>>],
     [op |-> "writeFile", rel |-> <<<<"utils">>, <<"socketHandler.js">>>>],
     [op |-> "writeFile", rel |-> <<<<".env">>>>],
     [op |-> "writeFile", rel |-> <<<<"README.md">>>>],
     [op |-> "writeFile", rel |-> <<<<".gitignore">>>>] >>


\* the registry of the generator module; main is package.json's "main" field
templates ==
  [ basic   |-> [ops |-> basicOps,   main |-> << <<"index.js">> >>],
    chatapp |-> [ops |-> chatappOps, main |-> << <<"server.js">> >>],
    ecom    |-> [ops |-> ecomOps,    main |-> << <<"server.js">> >>],
    blog    |-> [ops |-> blogOps,    main |-> << <<"server.js">> >>],
    aichat  |-> [ops |-> aichatOps,  main |-> << <<"server.js">> >>] ]

\* --------------------------------------------------------------- the inputs
MyApp == <<"m","y","-","a","p","p">>
NodeModules == <<"n","o","d","e","_","m","o","d","u","l","e","s">>
BadChars == <<"M","y"," ","A","p","p","!">>

\* names a caller passes to generateProject
ProjectNames ==
  { Str(MyApp), Str(NodeModules), Str(BadChars), Str(<< >>), Str(<<".">>),
    Str(<<".",".">>), Undefined }

\* templates is a plain object literal: templates[key] also finds what the
\* object inherits from Object.prototype (a function or object, not a template)
ObjectPrototypeKeys == {"constructor"}

\* templates[templateType]: a template, an inherited value, or undefined
templateLookup(kind) ==
  IF kind \in DOMAIN templates THEN "template"
  ELSE IF kind \in ObjectPrototypeKeys THEN "inherited"
  ELSE "undefined"

\* template kinds a caller passes: the registered ones and two that are not
TemplateTypes == DOMAIN templates \cup {"unknown-kind", "constructor"}

\* the working directory before the first call: empty, or holding a
\* directory named like the project and/or a node_modules directory
BaseFs == [q \in Prefixes(cwd) |-> "dir"]
ExistingProject ==
  [q \in {cwd \o <<MyApp>>, cwd \o <<MyApp, <<"keep.txt">> >>} |->
     IF q = cwd \o <<MyApp>> THEN "dir" ELSE "user"]
ExistingModules ==
  [q \in {cwd \o <<NodeModules>>, cwd \o <<NodeModules, <<"dep.js">> >>} |->
     IF q = cwd \o <<NodeModules>> THEN "dir" ELSE "user"]
Merge(f, g) == [q \in DOMAIN f \cup DOMAIN g |-> IF q \in DOMAIN g THEN g[q] ELSE f[q]]
InitialFs ==
  { BaseFs, Merge(BaseFs, ExistingProject), Merge(BaseFs, ExistingModules),
    Merge(Merge(BaseFs, ExistingProject), ExistingModules) }

\* ------------------------------------------------------------------- state
VARIABLES
  fs,            \* the filesystem: path -> "dir" or a file's content tag
  pc,            \* per caller: position inside generateProject
  projectName,   \* per caller: argument 1
  templateType,  \* per caller: argument 2
  step,          \* per caller: next operation of the template's generate
  error,         \* per caller: the error caught by the catch block
  result,        \* per caller: "pending", "ok", or the error that reaches the caller
  cleaned,       \* per caller: 'Cleaned up incomplete project directory' logged
  warned,        \* per caller: 'Could not clean up project directory' warned
  calls,         \* per caller: calls issued so far
  fsAtCall,      \* per caller: the filesystem when the call was made
  fsFailed,      \* per caller: some filesystem operation of this call failed
  prevName,      \* per caller: the name of the previous call
  prevResult,    \* per caller: the result of the previous call
  trace,         \* per caller: the steps this invocation has executed, in order
  vName,         \* validator run: the name under validation
  vResult,       \* validator run: "pending" or what validateProjectName did
  cliPc,         \* create command: position inside the action ("off": not run)
  cliArg,        \* create command: the [project-name] argument, or undefined
  cliName,       \* create command: projectName after the prompt
  cliTemplate,   \* create command: the selected template
  exitCode,      \* create command: process exit code, -1 while running
  errorShown,    \* create command: 'Oops! Something went wrong' printed
  successShown,  \* create command: the success banner printed
  cliThrown,     \* create command: the step whose error entered the catch block
  npm,           \* installDependencies: state of the spawned npm process
  npmKilled,     \* installDependencies: npmInstall.killed
  timer,         \* installDependencies: the 120 s timeout
  installResolved, \* installDependencies: the returned promise is resolved
  reports        \* installDependencies: the final-outcome lines printed, in order

cliVars == << cliPc, cliArg, cliName, cliTemplate, exitCode, errorShown,
              successShown, cliThrown, npm, npmKilled, timer, installResolved, reports >>

vars == << fs, pc, projectName, templateType, step, error, result, cleaned,
           warned, calls, fsAtCall, fsFailed, prevName, prevResult, trace,
           vName, vResult, cliPc, cliArg, cliName, cliTemplate, exitCode,
           errorShown, successShown, cliThrown, npm, npmKilled, timer,
           installResolved, reports >>

\* an entry of trace: a named step, or the i-th operation of generate
St(name) == [s |-> name, i |-> 0]
Op(k) == [s |-> "op", i |-> k]

\* the create command is not running
CliOff ==
  /\ cliPc = "off"
  /\ cliArg = Undefined
  /\ cliName = Undefined
  /\ cliTemplate = "basic"
  /\ exitCode = -1
  /\ errorShown = FALSE
  /\ successShown = FALSE
  /\ cliThrown = "none"
  /\ npm = "none"
  /\ npmKilled = FALSE
  /\ timer = "none"
  /\ installResolved = FALSE
  /\ reports = << >>

\* nobody is inside generateProject
GeneratorIdle ==
  /\ pc = [p \in Procs |-> "idle"]
  /\ projectName = [p \in Procs |-> Undefined]
  /\ templateType = [p \in Procs |-> "basic"]
  /\ step = [p \in Procs |-> 0]
  /\ error = [p \in Procs |-> "none"]
  /\ result = [p \in Procs |-> "pending"]
  /\ cleaned = [p \in Procs |-> FALSE]
  /\ warned = [p \in Procs |-> FALSE]
  /\ calls = [p \in Procs |-> 0]
  /\ fsAtCall = [p \in Procs |-> << >>]
  /\ fsFailed = [p \in Procs |-> FALSE]
  /\ prevName = [p \in Procs |-> Undefined]
  /\ prevResult = [p \in Procs |-> "pending"]
  /\ trace = [p \in Procs |-> << >>]

\* const projectPath = path.join(process.cwd(), projectName)
projectPath(p) == pathJoin(cwd, projectName[p].chars)

Init ==
  /\ fs \in InitialFs
  /\ GeneratorIdle
  /\ vName = Undefined
  /\ vResult = "idle"
  /\ CliOff

\* ------------------------------------------------------- generateProject
\* the step(s) es have been executed by caller p
Did(p, es) == trace' = [trace EXCEPT ![p] = @ \o es]

\* generateProject(name, kind) is invoked by caller p
CallWith(p, name, kind) ==
  /\ pc[p] = "idle"
  /\ projectName' = [projectName EXCEPT ![p] = name]
  /\ templateType' = [templateType EXCEPT ![p] = kind]
  /\ pc' = [pc EXCEPT ![p] = "validating"]
  /\ calls' = [calls EXCEPT ![p] = @ + 1]
  /\ step' = [step EXCEPT ![p] = 0]
  /\ error' = [error EXCEPT ![p] = "none"]
  /\ result' = [result EXCEPT ![p] = "pending"]
  /\ cleaned' = [cleaned EXCEPT ![p] = FALSE]
  /\ warned' = [warned EXCEPT ![p] = FALSE]
  /\ fsAtCall' = [fsAtCall EXCEPT ![p] = fs]
  /\ fsFailed' = [fsFailed EXCEPT ![p] = FALSE]
  /\ prevName' = [prevName EXCEPT ![p] = projectName[p]]
  /\ prevResult' = [prevResult EXCEPT ![p] = result[p]]
  /\ trace' = [trace EXCEPT ![p] = << >>]
  /\ UNCHANGED << fs, vName, vResult >>

\* the caller invokes generateProject(name, kind)
Call(p) ==
  /\ calls[p] < MaxCalls
  /\ \E name \in ProjectNames, kind \in TemplateTypes : CallWith(p, name, kind)
  /\ UNCHANGED cliVars

\* control enters the catch block with the error e
Throw(p, e) ==
  /\ error' = [error EXCEPT ![p] = e]
  /\ pc' = [pc EXCEPT ![p] = "rollingBack"]

\* variant: a validation error goes straight to the caller, past the catch block
ValidateThrowsDirectly(p) ==
  /\ pc[p] = "validating"
  /\ LET e == validateProjectName(projectName[p]) IN
       IF e # "none"
         THEN /\ error' = [error EXCEPT ![p] = e]
              /\ result' = [result EXCEPT ![p] = e]
              /\ pc' = [pc EXCEPT ![p] = "failed"]
              /\ Did(p, << St("validate"), St("throw") >>)
         ELSE /\ pc' = [pc EXCEPT ![p] = "checking"]
              /\ Did(p, << St("validate") >>)
              /\ UNCHANGED << error, result >>
  /\ UNCHANGED << fs, projectName, templateType, step, cleaned, warned,
                  calls, fsAtCall, fsFailed, prevName, prevResult, vName, vResult,
                  cliVars >>

\* validateProjectName(projectName); on success the path is computed and
\* fs.pathExists(projectPath) is issued
Validate(p) ==
  /\ pc[p] = "validating"
  /\ LET e == validateProjectName(projectName[p]) IN
       IF e # "none"
         THEN /\ Throw(p, e)
              /\ Did(p, << St("validate"), St("throw") >>)
         ELSE /\ pc' = [pc EXCEPT ![p] = "checking"]
              /\ Did(p, << St("validate") >>)
              /\ UNCHANGED error
  /\ UNCHANGED << fs, projectName, templateType, step, result, cleaned, warned,
                  calls, fsAtCall, fsFailed, prevName, prevResult, vName, vResult,
                  cliVars >>

\* variant: the pre-check also fails while another invocation that passed it
\* for the same path is still at work (an exclusive claim of the path)
CheckExistsExclusive(p) ==
  /\ pc[p] = "checking"
  /\ IF \/ pathExists(fs, projectPath(p))
        \/ \E q \in Procs \ {p} :
             /\ pc[q] \in {"creating", "generating"}
             /\ projectName[q] = projectName[p]
       THEN /\ Throw(p, "DirectoryExists")
            /\ Did(p, << St("preCheck"), St("throw") >>)
     ELSE IF templateLookup(templateType[p]) = "undefined"
       THEN /\ Throw(p, "TemplateNotFound")
            /\ Did(p, << St("preCheck"), St("lookup"), St("throw") >>)
     ELSE /\ pc' = [pc EXCEPT ![p] = "creating"]
          /\ Did(p, << St("preCheck"), St("lookup") >>)
          /\ UNCHANGED error
  /\ UNCHANGED << fs, projectName, templateType, step, result, cleaned, warned,
                  calls, fsAtCall, fsFailed, prevName, prevResult, vName, vResult,
                  cliVars >>

\* variant: no existence pre-check
CheckExistsNoPrecheck(p) ==
  /\ pc[p] = "checking"
  /\ IF templateLookup(templateType[p]) = "undefined"
       THEN /\ Throw(p, "TemplateNotFound")
            /\ Did(p, << St("lookup"), St("throw") >>)
       ELSE /\ pc' = [pc EXCEPT ![p] = "creating"]
            /\ Did(p, << St("lookup") >>)
            /\ UNCHANGED error
  /\ UNCHANGED << fs, projectName, templateType, step, result, cleaned, warned,
                  calls, fsAtCall, fsFailed, prevName, prevResult, vName, vResult,
                  cliVars >>

\* variant: the template lookup comes before the existence pre-check
CheckExistsLookupFirst(p) ==
  /\ pc[p] = "checking"
  /\ IF templateLookup(templateType[p]) = "undefined"
       THEN /\ Throw(p, "TemplateNotFound")
            /\ Did(p, << St("lookup"), St("throw") >>)
     ELSE IF pathExists(fs, projectPath(p))
       THEN /\ Throw(p, "DirectoryExists")
            /\ Did(p, << St("lookup"), St("preCheck"), St("throw") >>)
     ELSE /\ pc' = [pc EXCEPT ![p] = "creating"]
          /\ Did(p, << St("lookup"), St("preCheck") >>)
          /\ UNCHANGED error
  /\ UNCHANGED << fs, projectName, templateType, step, result, cleaned, warned,
                  calls, fsAtCall, fsFailed, prevName, prevResult, vName, vResult,
                  cliVars >>

\* await fs.pathExists(projectPath) answers; then the template lookup, and
\* fs.ensureDir(projectPath) is issued
CheckExists(p) ==
  /\ pc[p] = "checking"
  /\ IF pathExists(fs, projectPath(p))
       THEN /\ Throw(p, "DirectoryExists")
            /\ Did(p, << St("preCheck"), St("throw") >>)
     ELSE IF templateLookup(templateType[p]) = "undefined"
       THEN /\ Throw(p, "TemplateNotFound")
            /\ Did(p, << St("preCheck"), St("lookup"), St("throw") >>)
     ELSE /\ pc' = [pc EXCEPT ![p] = "creating"]
          /\ Did(p, << St("preCheck"), St("lookup") >>)
          /\ UNCHANGED error
  /\ UNCHANGED << fs, projectName, templateType, step, result, cleaned, warned,
                  calls, fsAtCall, fsFailed, prevName, prevResult, vName, vResult,
                  cliVars >>

\* await fs.ensureDir(projectPath): creates the directory, or fails; then
\* template.generate(projectPath, projectName) is called, which is a
\* TypeError (not a function) when the lookup found an inherited value
CreateDir(p) ==
  /\ pc[p] = "creating"
  /\ \/ /\ ensureDirCan(fs, projectPath(p))
        /\ fs' = ensureDir(fs, projectPath(p))
        /\ IF templateLookup(templateType[p]) = "template"
             THEN /\ pc' = [pc EXCEPT ![p] = "generating"]
                  /\ step' = [step EXCEPT ![p] = 1]
                  /\ Did(p, << St("ensureDir"), St("generate") >>)
                  /\ UNCHANGED error
             ELSE /\ Throw(p, "NotAFunction")
                  /\ Did(p, << St("ensureDir"), St("throw") >>)
                  /\ UNCHANGED step
        /\ UNCHANGED fsFailed
     \/ /\ Throw(p, "EnsureDirError")
        /\ Did(p, << St("ensureDir"), St("throw") >>)
        /\ fsFailed' = [fsFailed EXCEPT ![p] = TRUE]
        /\ UNCHANGED << fs, step >>
  /\ UNCHANGED << projectName, templateType, result, cleaned, warned,
                  calls, fsAtCall, prevName, prevResult, vName, vResult, cliVars >>

\* the effect of one operation of a template's generate on the filesystem
opCan(f, base, o) ==
  IF o.op = "ensureDir" THEN ensureDirCan(f, base \o o.rel)
  ELSE writeFileCan(f, base \o o.rel)
opApply(f, base, o, content) ==
  IF o.op = "ensureDir" THEN ensureDir(f, base \o o.rel)
  ELSE writeFile(f, base \o o.rel, content)

\* variant: a failed operation of generate is tried again
GenerateStepRetry(p) ==
  /\ pc[p] = "generating"
  /\ LET ops == templates[templateType[p]].ops
         o == ops[step[p]] IN
       \/ /\ opCan(fs, projectPath(p), o)
          /\ fs' = opApply(fs, projectPath(p), o, templateType[p])
          /\ Did(p, << Op(step[p]) >>)
          /\ IF step[p] = Len(ops)
               THEN /\ pc' = [pc EXCEPT ![p] = "done"]
                    /\ result' = [result EXCEPT ![p] = "ok"]
                    /\ UNCHANGED step
               ELSE /\ step' = [step EXCEPT ![p] = @ + 1]
                    /\ UNCHANGED << pc, result >>
          /\ UNCHANGED << error, fsFailed >>
       \/ /\ Did(p, << Op(step[p]) >>)
          /\ fsFailed' = [fsFailed EXCEPT ![p] = TRUE]
          /\ UNCHANGED << fs, step, result, pc, error >>
  /\ UNCHANGED << projectName, templateType, cleaned, warned,
                  calls, fsAtCall, prevName, prevResult, vName, vResult, cliVars >>

\* await template.generate(projectPath, projectName), one awaited filesystem
\* operation at a time; after the last one generateProject returns
GenerateStep(p) ==
  /\ pc[p] = "generating"
  /\ LET ops == templates[templateType[p]].ops
         o == ops[step[p]] IN
       \/ /\ opCan(fs, projectPath(p), o)
          /\ fs' = opApply(fs, projectPath(p), o, templateType[p])
          /\ Did(p, << Op(step[p]) >>)
          /\ IF step[p] = Len(ops)
               THEN /\ pc' = [pc EXCEPT ![p] = "done"]
                    /\ result' = [result EXCEPT ![p] = "ok"]
                    /\ UNCHANGED step
               ELSE /\ step' = [step EXCEPT ![p] = @ + 1]
                    /\ UNCHANGED << pc, result >>
          /\ UNCHANGED << error, fsFailed >>
       \/ /\ Throw(p, "TemplateError")
          /\ Did(p, << Op(step[p]), St("throw") >>)
          /\ fsFailed' = [fsFailed EXCEPT ![p] = TRUE]
          /\ UNCHANGED << fs, step, result >>
  /\ UNCHANGED << projectName, templateType, cleaned, warned,
                  calls, fsAtCall, prevName, prevResult, vName, vResult, cliVars >>

\* variant: the catch block rethrows without cleaning up
CatchNoCleanup(p) ==
  /\ pc[p] = "rollingBack"
  /\ result' = [result EXCEPT ![p] = error[p]]
  /\ pc' = [pc EXCEPT ![p] = "failed"]
  /\ UNCHANGED << fs, projectName, templateType, step, error, cleaned, warned,
                  calls, fsAtCall, fsFailed, prevName, prevResult, trace,
                  vName, vResult, cliVars >>

\* catch (error): path.join again, then await fs.pathExists(projectPath);
\* when nothing is there the error is rethrown
Catch(p) ==
  /\ pc[p] = "rollingBack"
  /\ IF pathJoinThrows(projectName[p])
       THEN /\ result' = [result EXCEPT ![p] = "TypeError"]
            /\ pc' = [pc EXCEPT ![p] = "failed"]
            /\ UNCHANGED trace
     ELSE IF pathExists(fs, projectPath(p))
       THEN /\ pc' = [pc EXCEPT ![p] = "removing"]
            /\ Did(p, << St("cleanupExists") >>)
            /\ UNCHANGED result
     ELSE /\ result' = [result EXCEPT ![p] = error[p]]
          /\ pc' = [pc EXCEPT ![p] = "failed"]
          /\ Did(p, << St("cleanupExists") >>)
  /\ UNCHANGED << fs, projectName, templateType, step, error, cleaned, warned,
                  calls, fsAtCall, fsFailed, prevName, prevResult, vName, vResult,
                  cliVars >>

\* try { await fs.remove(projectPath) } catch (cleanupError) { warn };
\* throw error
Remove(p) ==
  /\ pc[p] = "removing"
  /\ \/ /\ fs' = remove(fs, projectPath(p))
        /\ cleaned' = [cleaned EXCEPT ![p] = TRUE]
        /\ UNCHANGED << warned, fsFailed >>
     \/ /\ warned' = [warned EXCEPT ![p] = TRUE]
        /\ fsFailed' = [fsFailed EXCEPT ![p] = TRUE]
        /\ UNCHANGED << fs, cleaned >>
  /\ Did(p, << St("remove") >>)
  /\ result' = [result EXCEPT ![p] = error[p]]
  /\ pc' = [pc EXCEPT ![p] = "failed"]
  /\ UNCHANGED << projectName, templateType, step, error,
                  calls, fsAtCall, prevName, prevResult, vName, vResult, cliVars >>

\* the caller has observed the outcome and may call again
Return(p) ==
  /\ pc[p] \in {"done", "failed"}
  /\ pc' = [pc EXCEPT ![p] = "idle"]
  /\ UNCHANGED << fs, projectName, templateType, step, error, result, cleaned,
                  warned, calls, fsAtCall, fsFailed, prevName, prevResult, trace,
                  vName, vResult, cliVars >>

Next ==
  \E p \in SeqProcs :
    \/ Call(p)
    \/ Validate(p)
    \/ CheckExists(p)
    \/ CreateDir(p)
    \/ GenerateStep(p)
    \/ Catch(p)
    \/ Remove(p)
    \/ Return(p)

Spec == Init /\ [][Next]_vars

\* ------------------------------------ two invocations for the same name
\* two processes run generateProject once each, for the same project name,
\* in an empty working directory; nothing coordinates them
ConcProcs == {1, 2}
ConcTemplateTypes == {"blog", "ecom"}

InitConc ==
  /\ fs = BaseFs
  /\ GeneratorIdle
  /\ vName = Undefined
  /\ vResult = "idle"
  /\ CliOff

ConcCall(p) ==
  /\ calls[p] = 0
  /\ \E kind \in ConcTemplateTypes : CallWith(p, Str(MyApp), kind)
  /\ UNCHANGED cliVars

NextConc ==
  \E p \in ConcProcs :
    \/ ConcCall(p)
    \/ Validate(p)
    \/ CheckExists(p)
    \/ CreateDir(p)
    \/ GenerateStep(p)
    \/ Catch(p)
    \/ Remove(p)

SpecConc == InitConc /\ [][NextConc]_vars

\* ------------------------------------------- validateProjectName on its own
ValidatorChars == {"a", "Z", "0", "_", "-", ".", "/", " ", "\t", "!", "@"}

RECURSIVE SeqsUpTo(_, _)
SeqsUpTo(S, n) ==
  IF n = 0 THEN {<< >>}
  ELSE LET shorter == SeqsUpTo(S, n - 1) IN
       shorter \cup {Append(s, c) : s \in shorter, c \in S}

Repeat(c, n) == [i \in 1..n |-> c]
Upcase(s) == [i \in DOMAIN s |->
                IF s[i] \in Lower
                  THEN UpperSeq[CHOOSE k \in DOMAIN LowerSeq : LowerSeq[k] = s[i]]
                  ELSE s[i]]

\* every string over ValidatorChars up to MaxLen, the boundary lengths, the
\* reserved names in lower and upper case, and undefined
ValidatorNames ==
  {Str(s) : s \in SeqsUpTo(ValidatorChars, MaxLen)}
  \cup {Str(Repeat("a", n)) : n \in {MaxNameLength - 1, MaxNameLength, MaxNameLength + 1}}
  \cup {Str(<<"_">> \o Repeat("9", MaxNameLength - 1)),
        Str(<<"-">> \o Repeat("a", MaxNameLength)),
        Str(<<".">> \o Repeat("a", MaxNameLength)),
        Str(Repeat(" ", MaxNameLength + 1))}
  \cup {Str(s) : s \in reservedNames}
  \cup {Str(Upcase(s)) : s \in reservedNames}
  \cup {Str(MyApp), Str(BadChars), Undefined}

InitValidate ==
  /\ fs = BaseFs
  /\ GeneratorIdle
  /\ vName \in ValidatorNames
  /\ vResult = "pending"
  /\ CliOff

\* validateProjectName(vName) runs: it throws an error or returns undefined
RunValidate ==
  /\ vResult = "pending"
  /\ vResult' = validateProjectName(vName)
  /\ UNCHANGED << vName, fs, pc, projectName, templateType, step, error, result,
                  cleaned, warned, calls, fsAtCall, fsFailed, prevName, prevResult,
                  trace, cliVars >>

NextValidate == RunValidate

SpecValidate == InitValidate /\ [][NextValidate]_vars

\* ------------------------------------------------------ the create command
\* the prompt's validate function: "ok" for true, else the message it returns
promptValidate(input) ==
  IF TrimIsEmpty(input) THEN "required"
  ELSE IF Len(input) > 50 THEN "tooLong"
  ELSE IF ~validNameRegexTest(input) THEN "invalidCharacters"
  ELSE "ok"

\* the [project-name] argument: omitted, or a string
CliArgs ==
  { Undefined, Str(<< >>), Str(MyApp), Str(NodeModules), Str(BadChars),
    Str(<<".">>) }

\* what a user types at the name prompt
PromptInputs ==
  { << >>, MyApp, NodeModules, BadChars, <<"-", "x">>, <<".">>,
    Repeat("a", 50), Repeat("a", 51) }

\* variant: a choice that neither the registry nor templateInfo knows
templateChoicesWithUnregistered ==
  {"basic", "chatapp", "ecom", "blog", "aichat", "graphql"}

\* the values of templateChoices, and the keys of templateInfo
templateChoices == {"basic", "chatapp", "ecom", "blog", "aichat"}
templateInfo == {"basic", "chatapp", "ecom", "blog", "aichat"}

InitCli ==
  /\ fs \in InitialFs
  /\ GeneratorIdle
  /\ vName = Undefined
  /\ vResult = "idle"
  /\ cliPc = "start"
  /\ cliArg \in CliArgs
  /\ cliName = Undefined
  /\ cliTemplate = "basic"
  /\ exitCode = -1
  /\ errorShown = FALSE
  /\ successShown = FALSE
  /\ cliThrown = "none"
  /\ npm = "none"
  /\ npmKilled = FALSE
  /\ timer = "none"
  /\ installResolved = FALSE
  /\ reports = << >>

genVars == << fs, pc, projectName, templateType, step, error, result, cleaned,
              warned, calls, fsAtCall, fsFailed, prevName, prevResult, trace >>

\* an error thrown at step w of the action enters its catch block
CliThrow(w) ==
  /\ cliThrown' = w
  /\ cliPc' = "catch"

\* showBanner(); if (!projectName) the name prompt is shown
CliStart ==
  /\ cliPc = "start"
  /\ IF cliArg.type # "string" \/ Len(cliArg.chars) = 0
       THEN cliPc' = "promptName" /\ UNCHANGED cliName
       ELSE cliPc' = "promptTemplate" /\ cliName' = cliArg
  /\ UNCHANGED << genVars, vName, vResult, cliArg, cliTemplate, exitCode,
                  errorShown, successShown, cliThrown, npm, npmKilled, timer,
                  installResolved, reports >>

\* await inquirer.prompt (name): an input its validate accepts, or a rejection
CliPromptName ==
  /\ cliPc = "promptName"
  /\ \/ /\ \E input \in PromptInputs :
             /\ promptValidate(input) = "ok"
             /\ cliName' = Str(input)
        /\ cliPc' = "promptTemplate"
        /\ UNCHANGED cliThrown
     \/ /\ CliThrow("prompt")
        /\ UNCHANGED cliName
  /\ UNCHANGED << genVars, vName, vResult, cliArg, cliTemplate, exitCode,
                  errorShown, successShown, npm, npmKilled, timer,
                  installResolved, reports >>

\* await inquirer.prompt (template list), templateInfo[template] is printed,
\* then the four showLoading animations run
CliPromptTemplate ==
  /\ cliPc = "promptTemplate"
  /\ \/ /\ \E t \in templateChoices :
             /\ cliTemplate' = t
             /\ IF t \in templateInfo
                  THEN cliPc' = "loading" /\ UNCHANGED cliThrown
                  ELSE CliThrow("templateInfo")
     \/ /\ CliThrow("prompt")
        /\ UNCHANGED cliTemplate
  /\ UNCHANGED << genVars, vName, vResult, cliArg, cliName, exitCode,
                  errorShown, successShown, npm, npmKilled, timer,
                  installResolved, reports >>

\* await generateProject(projectName, template): the call is made
CliGenerate ==
  /\ cliPc = "loading"
  /\ CallWith(1, cliName, cliTemplate)
  /\ cliPc' = "generating"
  /\ UNCHANGED << cliArg, cliName, cliTemplate, exitCode, errorShown,
                  successShown, cliThrown, npm, npmKilled, timer,
                  installResolved, reports >>

\* variant: a failure of generateProject is ignored
CliGenerateReturnedIgnoresFailure ==
  /\ cliPc = "generating"
  /\ pc[1] \in {"done", "failed"}
  /\ cliPc' = "spawning"
  /\ UNCHANGED << genVars, vName, vResult, cliArg, cliName, cliTemplate,
                  exitCode, errorShown, successShown, cliThrown, npm, npmKilled,
                  timer, installResolved, reports >>

\* generateProject has returned or thrown
CliGenerateReturned ==
  /\ cliPc = "generating"
  /\ pc[1] \in {"done", "failed"}
  /\ IF pc[1] = "done"
       THEN cliPc' = "spawning" /\ UNCHANGED cliThrown
       ELSE CliThrow("generate")
  /\ UNCHANGED << genVars, vName, vResult, cliArg, cliName, cliTemplate,
                  exitCode, errorShown, successShown, npm, npmKilled,
                  timer, installResolved, reports >>

\* installDependencies(projectPath): spawn("npm", ["install"]) starts the
\* process, or fails to start it (an 'error' event follows), or throws; the
\* 120 s timeout is set after a spawn that did not throw
CliSpawn ==
  /\ cliPc = "spawning"
  /\ \/ /\ npm' = "running"
        /\ timer' = "armed"
        /\ cliPc' = "installing"
        /\ UNCHANGED cliThrown
     \/ /\ npm' = "failedToStart"
        /\ timer' = "armed"
        /\ cliPc' = "installing"
        /\ UNCHANGED cliThrown
     \/ /\ CliThrow("spawn")
        /\ UNCHANGED << npm, timer >>
  /\ UNCHANGED << genVars, vName, vResult, cliArg, cliName, cliTemplate,
                  exitCode, errorShown, successShown, npmKilled,
                  installResolved, reports >>

\* npmInstall.on("close"): reports by exit code and resolves
NpmClose ==
  /\ exitCode = -1
  /\ npm \in {"running", "errored"}
  /\ \E code \in {0, 1} :
       /\ (npm = "errored" \/ npmKilled) => code # 0
       /\ reports' = Append(reports, IF code = 0 THEN "installed successfully"
                                     ELSE "installation failed")
  /\ npm' = "closed"
  /\ installResolved' = TRUE
  /\ UNCHANGED << genVars, vName, vResult, cliPc, cliArg, cliName, cliTemplate,
                  exitCode, errorShown, successShown, cliThrown, npmKilled,
                  timer >>

\* npmInstall.on("error"): reports and resolves
NpmError ==
  /\ exitCode = -1
  /\ npm = "failedToStart"
  /\ reports' = Append(reports, "could not install automatically")
  /\ npm' = "errored"
  /\ installResolved' = TRUE
  /\ UNCHANGED << genVars, vName, vResult, cliPc, cliArg, cliName, cliTemplate,
                  exitCode, errorShown, successShown, cliThrown, npmKilled,
                  timer >>

\* the setTimeout callback: if (!npmInstall.killed) report, kill, resolve
InstallTimeout ==
  /\ exitCode = -1
  /\ timer = "armed"
  /\ timer' = "fired"
  /\ IF ~npmKilled
       THEN /\ reports' = Append(reports, "Installation timeout")
            /\ npmKilled' = (npm = "running")
            /\ installResolved' = TRUE
       ELSE UNCHANGED << reports, npmKilled, installResolved >>
  /\ UNCHANGED << genVars, vName, vResult, cliPc, cliArg, cliName, cliTemplate,
                  exitCode, errorShown, successShown, cliThrown, npm >>

\* after await installDependencies: showSuccess and the next steps
CliShowSuccess ==
  /\ cliPc = "installing"
  /\ installResolved
  /\ successShown' = TRUE
  /\ cliPc' = "finished"
  /\ UNCHANGED << genVars, vName, vResult, cliArg, cliName, cliTemplate,
                  exitCode, errorShown, cliThrown, npm, npmKilled, timer,
                  installResolved, reports >>

\* variant: the catch block prints the error but leaves the exit code at 0
CliCatchExitZero ==
  /\ cliPc = "catch"
  /\ errorShown' = TRUE
  /\ exitCode' = 0
  /\ cliPc' = "exited"
  /\ UNCHANGED << genVars, vName, vResult, cliArg, cliName, cliTemplate,
                  successShown, cliThrown, npm, npmKilled, timer,
                  installResolved, reports >>

\* catch (error): the message and the tips are printed, process.exit(1)
CliCatch ==
  /\ cliPc = "catch"
  /\ errorShown' = TRUE
  /\ exitCode' = 1
  /\ cliPc' = "exited"
  /\ UNCHANGED << genVars, vName, vResult, cliArg, cliName, cliTemplate,
                  successShown, cliThrown, npm, npmKilled, timer,
                  installResolved, reports >>

\* the action has returned and nothing keeps the event loop alive
CliExit ==
  /\ cliPc = "finished"
  /\ timer # "armed"
  /\ npm \notin {"running", "failedToStart"}
  /\ exitCode' = 0
  /\ cliPc' = "exited"
  /\ UNCHANGED << genVars, vName, vResult, cliArg, cliName, cliTemplate,
                  errorShown, successShown, cliThrown, npm, npmKilled, timer,
                  installResolved, reports >>

NextCli ==
  \/ CliStart
  \/ CliPromptName
  \/ CliPromptTemplate
  \/ CliGenerate
  \/ Validate(1)
  \/ CheckExists(1)
  \/ CreateDir(1)
  \/ GenerateStep(1)
  \/ Catch(1)
  \/ Remove(1)
  \/ CliGenerateReturned
  \/ CliSpawn
  \/ NpmClose
  \/ NpmError
  \/ InstallTimeout
  \/ CliShowSuccess
  \/ CliCatch
  \/ CliExit

SpecCli == InitCli /\ [][NextCli]_vars

\* ================================================================ claims
IsFile(f, p) == p \in DOMAIN f /\ f[p] # "dir"
\* nothing is left at p or below it
Absent(f, p) == \A q \in DOMAIN f : ~IsPrefix(p, q)
Returned(p) == pc[p] \in {"done", "failed"}
PassesValidation(p) == validateProjectName(projectName[p]) = "none"

\* the rules of a project name, as the specification lists them
OutsideClass(c) == c \notin Lower \cup Upper \cup Digits \cup {"-", "_"}
ViolatesSomeRule(n) ==
  \/ Len(n.chars) = 0
  \/ \A i \in DOMAIN n.chars : n.chars[i] \in Whitespace
  \/ Len(n.chars) > 214
  \/ \E i \in DOMAIN n.chars : OutsideClass(n.chars[i])
  \/ (Len(n.chars) >= 1 /\ n.chars[1] \in {".", "-"})
  \/ \E r \in reservedNames : toLowerCase(n.chars) = r
MeetsEveryRule(n) ==
  /\ n.type = "string"
  /\ Len(n.chars) \in 1..214
  /\ \A i \in DOMAIN n.chars : ~OutsideClass(n.chars[i])
  /\ n.chars[1] \notin {".", "-"}
  /\ \A r \in reservedNames : toLowerCase(n.chars) # r

\* C1: when a valid name's target already exists at the call, the call fails
\* with 'Directory already exists' and the filesystem is exactly as it was
\* when the call was made (the existing directory and its contents untouched).
C1_ExistingDirUntouched ==
  \A p \in Procs :
    (Returned(p) /\ PassesValidation(p)
       /\ pathExists(fsAtCall[p], projectPath(p)))
    => (pc[p] = "failed" /\ result[p] = "DirectoryExists" /\ fs = fsAtCall[p])

\* C2: a call with a name that fails validation leaves the filesystem as it
\* was when the call was made, whatever existed at join(cwd, name).
C2_InvalidNameLeavesFsUntouched ==
  \A p \in Procs :
    (Returned(p) /\ ~PassesValidation(p)) => fs = fsAtCall[p]

\* C3: when the template's generate raised (after any number of operations)
\* the caller observes that very error and, the removal having succeeded,
\* nothing is left at or below the target directory.
C3_TemplateFailureRolledBack ==
  \A p \in Procs :
    (pc[p] = "failed" /\ error[p] = "TemplateError")
    => /\ result[p] = "TemplateError"
       /\ (cleaned[p] => Absent(fs, projectPath(p)))
       /\ (cleaned[p] \/ warned[p])

C3_Witness ==
  \E p \in Procs :
    /\ pc[p] = "failed" /\ error[p] = "TemplateError" /\ cleaned[p]
    /\ templateType[p] = "ecom" /\ step[p] = 4
    /\ result[p] = "TemplateError" /\ Absent(fs, projectPath(p))

\* C4: validateProjectName throws for every name that violates at least one
\* rule (empty or whitespace-only, longer than 214, a character outside
\* [A-Za-z0-9-_], a leading '.' or '-', a reserved name in any letter case).
C4_InvalidNamesRejected ==
  (vResult \notin {"idle", "pending"} /\ ViolatesSomeRule(vName))
    => vResult # "none"

C4_Witness ==
  /\ vResult = "ReservedName"
  /\ vName = Str(Upcase(NodeModules))

\* C5: validateProjectName returns normally for every name of 1 to 214
\* characters from [A-Za-z0-9-_] that does not start with '.' or '-' and is
\* not reserved; 214 characters, a leading '_' and a leading digit included.
C5_ValidNamesAccepted ==
  (vResult \notin {"idle", "pending"} /\ MeetsEveryRule(vName))
    => vResult = "none"

C5_Witness ==
  /\ vResult = "none"
  /\ Len(vName.chars) = 214
  /\ vName.chars[1] = "_"

\* C6: for a valid name whose target does not exist at the call and a kind
\* outside the registry, the target directory exists at no point of the call
\* and the call fails with 'Template not found'.
C6_UnknownTemplateCreatesNothing ==
  \A p \in Procs :
    (pc[p] # "idle" /\ PassesValidation(p)
       /\ ~pathExists(fsAtCall[p], projectPath(p))
       /\ templateType[p] \notin {"basic", "chatapp", "ecom", "blog", "aichat"})
    => /\ ~pathExists(fs, projectPath(p))
       /\ pc[p] # "done"
       /\ (pc[p] = "failed" => result[p] = "TemplateNotFound")

\* C7: whenever generateProject fails, the error that reaches the caller is
\* the error the failing step raised; nothing done during cleanup replaces it.
C7_OriginalErrorReachesCaller ==
  \A p \in Procs : pc[p] = "failed" => result[p] = error[p]

\* C8: a call that follows a successful call with the same name (nothing else
\* having touched the filesystem) fails with 'Directory already exists'.
C8_SecondCallFails ==
  \A p \in Procs :
    (Returned(p) /\ prevResult[p] = "ok" /\ prevName[p] = projectName[p])
    => (pc[p] = "failed" /\ result[p] = "DirectoryExists")

C8_Witness ==
  \E p \in Procs :
    /\ pc[p] = "failed" /\ calls[p] = 2
    /\ prevResult[p] = "ok" /\ prevName[p] = projectName[p]
    /\ result[p] = "DirectoryExists"

\* C9: a call with a valid name, a registered kind and no entry at the target,
\* in which no filesystem operation fails, succeeds without any rollback and
\* leaves the target directory with package.json and the entry-point file.
C9_SuccessPopulatesDirectory ==
  \A p \in Procs :
    (Returned(p) /\ PassesValidation(p)
       /\ templateType[p] \in DOMAIN templates
       /\ ~pathExists(fsAtCall[p], projectPath(p))
       /\ ~fsFailed[p])
    => /\ pc[p] = "done" /\ result[p] = "ok"
       /\ ~cleaned[p] /\ ~warned[p]
       /\ IsDir(fs, projectPath(p))
       /\ IsFile(fs, projectPath(p) \o << <<"package.json">> >>)
       /\ IsFile(fs, projectPath(p) \o templates[templateType[p]].main)

C9_Witness ==
  \E p \in Procs :
    /\ pc[p] = "done" /\ result[p] = "ok" /\ ~fsFailed[p]
    /\ projectName[p] = Str(MyApp) /\ templateType[p] = "basic"
    /\ IsFile(fs, projectPath(p) \o << <<"package.json">> >>)
    /\ IsFile(fs, projectPath(p) \o << <<"index.js">> >>)

\* C10: a successfully generated project has server.js, package.json, .env,
\* README.md and .gitignore at its root, whichever template was used.
C10_RootFilesPresent ==
  \A p \in Procs :
    pc[p] = "done" =>
      \A f \in {"server.js", "package.json", ".env", "README.md", ".gitignore"} :
        IsFile(fs, projectPath(p) \o << <<f>> >>)

\* every directory and file of the template is there, written by this call
FullyPopulated(p) ==
  /\ IsDir(fs, projectPath(p))
  /\ \A k \in DOMAIN templates[templateType[p]].ops :
       LET o == templates[templateType[p]].ops[k]
           q == projectPath(p) \o o.rel IN
         IF o.op = "ensureDir" THEN IsDir(fs, q)
         ELSE q \in DOMAIN fs /\ fs[q] = templateType[p]

\* C11: when generateProject has returned, either it succeeded and the fully
\* populated directory is there, or it failed and (the removal not having
\* failed) nothing is left at or below the target path.
C11_KeptOrRolledBack ==
  \A p \in Procs :
    (Returned(p) /\ projectName[p].type = "string")
    => \/ pc[p] = "done" /\ result[p] = "ok" /\ FullyPopulated(p)
       \/ /\ pc[p] = "failed" /\ result[p] # "ok"
          /\ (warned[p] \/ Absent(fs, projectPath(p)))

C11_Witness ==
  \E p \in Procs :
    /\ pc[p] = "failed" /\ error[p] = "DirectoryExists" /\ cleaned[p]
    /\ pathExists(fsAtCall[p], projectPath(p))
    /\ Absent(fs, projectPath(p))

\* the state of the specification's per-invocation state machine
PhaseOf(pcv, callsv, resultv) ==
  CASE pcv = "idle" -> (IF callsv = 0 THEN "Idle"
                        ELSE IF resultv = "ok" THEN "Done" ELSE "Failed")
    [] pcv = "validating" -> "Validating"
    [] pcv \in {"checking", "creating"} -> "Creating"
    [] pcv = "generating" -> "Generating"
    [] pcv \in {"rollingBack", "removing"} -> "RollingBack"
    [] pcv = "done" -> "Done"
    [] pcv = "failed" -> "Failed"

PhaseTransitions ==
  { <<"Validating", "Creating">>, <<"Creating", "Generating">>,
    <<"Generating", "Done">>,
    <<"Validating", "RollingBack">>, <<"Creating", "RollingBack">>,
    <<"Generating", "RollingBack">>, <<"RollingBack", "Failed">> }

\* C12: an invocation starts from Idle into Validating, visits Validating,
\* Creating, Generating in this order, ends in Done or in Failed, reaches
\* Failed only from RollingBack, and never leaves Done or Failed.
C12_StateMachineOrder ==
  [][\A p \in Procs :
       LET a == PhaseOf(pc[p], calls[p], result[p])
           b == PhaseOf(pc'[p], calls'[p], result'[p]) IN
         IF calls'[p] # calls[p]
           THEN a \in {"Idle", "Done", "Failed"} /\ b = "Validating"
           ELSE a = b \/ <<a, b>> \in PhaseTransitions]_vars

C12_Witness ==
  \E p \in Procs :
    /\ pc[p] = "failed" /\ error[p] = "NotAFunction" /\ cleaned[p]
    /\ trace[p] = << St("validate"), St("preCheck"), St("lookup"),
                     St("ensureDir"), St("throw"), St("cleanupExists"),
                     St("remove") >>

\* C13: generateProject reports success only when no step raised, and an error
\* raised by a step reaches the caller unchanged.
C13_ErrorsPropagateUnchanged ==
  \A p \in Procs :
    Returned(p) =>
      /\ (pc[p] = "done" => (result[p] = "ok" /\ error[p] = "none"))
      /\ (error[p] # "none" => (pc[p] = "failed" /\ result[p] = error[p]))

\* C16: fs.ensureDir(projectPath) runs only after validation, the existence
\* pre-check and the template lookup, in that order; an existing target with an
\* unknown kind gives 'Directory already exists'; an invalid name gets neither
\* pre-check nor lookup.
C16_CreateAfterChecks ==
  \A p \in Procs :
    /\ (\E i \in DOMAIN trace[p] : trace[p][i] = St("ensureDir"))
         => /\ Len(trace[p]) >= 4
            /\ SubSeq(trace[p], 1, 4) = << St("validate"), St("preCheck"),
                                           St("lookup"), St("ensureDir") >>
    /\ (Returned(p) /\ PassesValidation(p)
          /\ pathExists(fsAtCall[p], projectPath(p))
          /\ templateLookup(templateType[p]) = "undefined")
         => result[p] = "DirectoryExists"
    /\ ~PassesValidation(p)
         => \A i \in DOMAIN trace[p] : trace[p][i].s \notin {"preCheck", "lookup"}

C16_Witness ==
  \E p \in Procs :
    /\ pc[p] = "failed" /\ result[p] = "DirectoryExists"
    /\ templateType[p] = "unknown-kind"
    /\ trace[p] = << St("validate"), St("preCheck"), St("throw"),
                     St("cleanupExists"), St("remove") >>

\* C17: within one invocation no step is executed twice (validation,
\* pre-check, directory creation, each operation of generate, the removal),
\* and after the throw only the cleanup steps run.
C17_NoRetry ==
  \A p \in Procs :
    /\ \A i, j \in DOMAIN trace[p] : i # j => trace[p][i] # trace[p][j]
    /\ \A i, j \in DOMAIN trace[p] :
         (i < j /\ trace[p][i] = St("throw"))
           => trace[p][j].s \in {"cleanupExists", "remove"}

C17_Witness ==
  \E p \in Procs :
    /\ pc[p] = "failed" /\ error[p] = "TemplateError" /\ warned[p]
    /\ step[p] = 3
    /\ trace[p][Len(trace[p])] = St("remove")

\* C19: the operations of a template's generate run one after another in
\* source order, and a file written into a subdirectory is written only after
\* an earlier operation of the same routine created that subdirectory.
C19_SubdirCreatedBeforeWrite ==
  \A p \in Procs :
    /\ \A i \in DOMAIN trace[p] :
         trace[p][i].s = "op"
           => \/ trace[p][i].i = 1 /\ trace[p][i - 1] = St("generate")
              \/ trace[p][i].i > 1 /\ trace[p][i - 1] = Op(trace[p][i].i - 1)
    /\ pc[p] = "generating"
         => LET ops == templates[templateType[p]].ops IN
              \A i \in 1..step[p] :
                (ops[i].op = "writeFile" /\ Len(ops[i].rel) = 2)
                  => \E j \in 1..(i - 1) :
                       /\ ops[j].op = "ensureDir"
                       /\ ops[j].rel = << ops[i].rel[1] >>

C19_Witness ==
  \E p \in Procs :
    /\ pc[p] = "generating" /\ templateType[p] = "blog"
    /\ IsDir(fs, projectPath(p) \o << <<"models">> >>)
    /\ IsFile(fs, projectPath(p) \o << <<"models">>, <<"Comment.js">> >>)

\* C14: nothing makes the pre-check exclusive: while one invocation has
\* passed it and not yet created the directory, the pre-check of another
\* invocation for the same name passes too, so that both create the directory
\* and write into it.
C14_PreCheckNotExclusive ==
  [][\A p, q \in Procs :
       (/\ p # q
        /\ pc[p] = "checking" /\ pc[q] = "creating"
        /\ projectName[p] = projectName[q]
        /\ ~pathExists(fs, projectPath(p))
        /\ templateLookup(templateType[p]) = "template"
        /\ pc'[p] # pc[p])
       => pc'[p] = "creating"]_vars

C14_Witness ==
  /\ pc[1] = "generating" /\ pc[2] = "generating"
  /\ projectName[1] = projectName[2]
  /\ step[1] > 1 /\ step[2] > 1
  /\ trace[1][3] = St("lookup") /\ trace[2][3] = St("lookup")
  /\ \A i \in DOMAIN trace[1] : trace[1][i] # St("throw")
  /\ \A i \in DOMAIN trace[2] : trace[2][i] # St("throw")

\* every directory and file of the template is on disk under the target
PopulatedOnDisk(p) ==
  /\ IsDir(fs, projectPath(p))
  /\ \A k \in DOMAIN templates[templateType[p]].ops :
       LET o == templates[templateType[p]].ops[k]
           q == projectPath(p) \o o.rel IN
         IF o.op = "ensureDir" THEN IsDir(fs, q) ELSE IsFile(fs, q)

\* C18: with two invocations for the same name, an invocation that returned
\* success has its populated directory on disk from then on; the other
\* invocation's rollback deletes none of it.
C18_SuccessPersists ==
  \A p \in Procs : result[p] = "ok" => PopulatedOnDisk(p)

\* C15: in the create command, once any step of the action has thrown (a
\* prompt, generateProject, or the spawn after it), the action goes no further
\* than its catch block, and the process exits only with the error message
\* printed and a non-zero exit code; when it was generateProject that failed,
\* at the exit nothing is left at the project path unless the removal itself
\* failed.
C15_ThrowPrintsAndExitsNonZero ==
  /\ cliThrown # "none" => cliPc \in {"catch", "exited"} /\ ~successShown
  /\ (cliPc = "exited" /\ cliThrown # "none") => errorShown /\ exitCode > 0
  /\ (pc[1] = "failed" /\ cliPc # "generating") => cliThrown = "generate"
  /\ (pc[1] = "failed" /\ cliPc = "exited")
       => Absent(fs, projectPath(1)) \/ warned[1]

\* a template failed part-way, the partial directory was removed, the error
\* was printed and the process exited with code 1
C15_Witness ==
  /\ cliPc = "exited"
  /\ cliThrown = "generate"
  /\ error[1] = "TemplateError"
  /\ step[1] > 1
  /\ cleaned[1]
  /\ Absent(fs, projectPath(1))
  /\ errorShown
  /\ exitCode = 1

\* C20: in the create command npm install is spawned, and its timeout set,
\* only once generateProject has returned successfully; when generateProject
\* has failed, no installer process exists and the success banner is not
\* printed.
C20_InstallOnlyAfterSuccess ==
  /\ (npm # "none" \/ timer # "none") => pc[1] = "done" /\ result[1] = "ok"
  /\ cliPc \in {"spawning", "installing", "finished"} => pc[1] = "done"
  /\ successShown => pc[1] = "done"
  /\ pc[1] = "failed" => npm = "none" /\ timer = "none" /\ ~successShown

\* generateProject refused an existing directory and the process has exited:
\* no installer was spawned and no success banner printed
C20_Witness ==
  /\ cliPc = "exited"
  /\ pc[1] = "failed"
  /\ error[1] = "DirectoryExists"
  /\ npm = "none"
  /\ ~successShown

\* C21: installDependencies never rejects: once generateProject has returned
\* successfully, nothing the installation does sends the create command into
\* its catch block or makes the process exit with code 1, and the generated
\* project stays on disk.
C21_InstallNeverFailsCreate ==
  result[1] = "ok"
    => /\ cliThrown = "none"
       /\ exitCode # 1
       /\ PopulatedOnDisk(1)

InstallOutcomes ==
  { "installed successfully", "installation failed",
    "could not install automatically" }

\* C22: the timeout callback acts only on an installation still running: the
\* message 'Installation timeout' is never reported after a report of the
\* close or error handler.
C22_TimeoutOnlyWhileRunning ==
  \A i, j \in DOMAIN reports :
    (i < j /\ reports[i] \in InstallOutcomes)
      => reports[j] # "Installation timeout"

\* C23: one call of installDependencies reports exactly one final outcome:
\* never more than one, and one once the promise is resolved.
C23_ExactlyOneOutcome ==
  /\ Len(reports) <= 1
  /\ installResolved => Len(reports) = 1

\* C24: a name the prompt's validate function accepted is accepted by
\* validateProjectName: generateProject never throws a name-validation error
\* for a name entered at the prompt.
C24_PromptNamesPassValidation ==
  (cliPc # "start" /\ ~(cliArg.type = "string" /\ Len(cliArg.chars) > 0)
     /\ cliName.type = "string")
    => /\ validateProjectName(cliName) = "none"
       /\ error[1] \notin {"EmptyName", "NameTooLong", "InvalidCharacters",
                           "LeadingDotOrHyphen", "ReservedName"}

\* C25: every template the create command offers is a key of the generator's
\* registry and of templateInfo: the 'Selected' line never throws, and
\* generateProject called by the command never fails on the template lookup.
C25_OfferedTemplatesRegistered ==
  /\ \A t \in templateChoices :
       templateLookup(t) = "template" /\ t \in templateInfo
  /\ cliThrown # "templateInfo"
  /\ error[1] \notin {"TemplateNotFound", "NotAFunction"}
  /\ cliPc \notin {"start", "promptName", "promptTemplate"}
       => templateLookup(cliTemplate) = "template"

\* the last choice of the list was selected, generated and the command ended
C25_Witness ==
  /\ cliPc = "exited"
  /\ exitCode = 0
  /\ cliTemplate = "aichat"
  /\ result[1] = "ok"
  /\ successShown

NameIsEmpty(n) == n.type # "string" \/ \A i \in DOMAIN n.chars : n.chars[i] \in Whitespace
NameTooLong(n) == Len(n.chars) > MaxNameLength
NameHasBadChar(n) == \E i \in DOMAIN n.chars : OutsideClass(n.chars[i])
NameHasBadStart(n) == n.chars[1] \in {".", "-"}
NameIsReserved(n) == toLowerCase(n.chars) \in reservedNames

\* C26: validateProjectName raises the error of the first failing check in
\* the order empty, length, character set, leading '.'/'-', reserved name.
\* So, among names that pass the empty and length checks, a name starting
\* with '.' and the reserved names favicon.ico, package.json and
\* package-lock.json get the character-set error, and the reserved-name error
\* is raised only for node_modules in any letter case.
C26_FirstFailingCheckWins ==
  vResult \notin {"idle", "pending"} =>
    /\ vResult = "EmptyName" <=> NameIsEmpty(vName)
    /\ vResult = "NameTooLong" <=> (~NameIsEmpty(vName) /\ NameTooLong(vName))
    /\ vResult = "InvalidCharacters"
         <=> (~NameIsEmpty(vName) /\ ~NameTooLong(vName) /\ NameHasBadChar(vName))
    /\ vResult = "LeadingDotOrHyphen"
         <=> (~NameIsEmpty(vName) /\ ~NameTooLong(vName)
              /\ ~NameHasBadChar(vName) /\ NameHasBadStart(vName))
    /\ vResult = "ReservedName"
         <=> (~NameIsEmpty(vName) /\ ~NameTooLong(vName)
              /\ ~NameHasBadChar(vName) /\ ~NameHasBadStart(vName)
              /\ NameIsReserved(vName))
    /\ (~NameIsEmpty(vName) /\ ~NameTooLong(vName) /\ vName.chars[1] = ".")
         => vResult = "InvalidCharacters"
    /\ (vName.type = "string"
        /\ toLowerCase(vName.chars) \in reservedNames \ {NodeModules})
         => vResult = "InvalidCharacters"
    /\ vResult = "ReservedName" => toLowerCase(vName.chars) = NodeModules

\* PACKAGE.JSON was rejected, with the character-set error
C26_Witness ==
  /\ vName = Str(Upcase(<<"p","a","c","k","a","g","e",".","j","s","o","n">>))
  /\ vResult = "InvalidCharacters"
====
